---- MODULE Spec2Model ----
(***************************************************************************)
(* Model of brewblox_brewfather_uploader/brewfather_uploader.py:           *)
(* PublishingFeature.prepare() compiles the fermenter configuration into   *)
(* self.field_mapping, and PublishingFeature.run() polls the Brewblox      *)
(* history service and submits to Brewfather, once per device, then sleeps.*)
(*                                                                         *)
(* Python str values are sequences of one-character strings, so that       *)
(* f-string formatting is concatenation and str.lower() is computed        *)
(* character by character.  None is the sequence <<"None">>, which is no   *)
(* sequence of one-character strings.  A dict is a function whose DOMAIN   *)
(* is its key set.                                                         *)
(***************************************************************************)
EXTENDS Integers, Sequences, FiniteSets, TLC

\* ------------------------------------------------------------------------
\* Bounds of the model
\* ------------------------------------------------------------------------
\* longest fermenter list read from the configuration file
MaxDevices == 2
\* longest list of {metric, value} pairs in a metrics response
MaxResp == 2
\* number of times the base class calls run()
MaxCycles == 2

\* ------------------------------------------------------------------------
\* Python values
\* ------------------------------------------------------------------------
None == <<"None">>

UpperChars ==
  <<"A","B","C","D","E","F","G","H","I","J","K","L","M",
    "N","O","P","Q","R","S","T","U","V","W","X","Y","Z">>

LowerChars ==
  <<"a","b","c","d","e","f","g","h","i","j","k","l","m",
    "n","o","p","q","r","s","t","u","v","w","x","y","z">>

\* one character of str.lower()
LowerChar(c) ==
  IF \E i \in 1..26 : UpperChars[i] = c
  THEN LowerChars[CHOOSE i \in 1..26 : UpperChars[i] = c]
  ELSE c

\* str.lower(): every cased character of the string is lower-cased
PyLower(s) == [i \in 1..Len(s) |-> LowerChar(s[i])]

\* dict.get(key, default)
Get(d, k, default) == IF k \in DOMAIN d THEN d[k] ELSE default

\* string literals of the source
L_Slash == <<"/">>
L_CalibratedTemperature ==
  <<"C","a","l","i","b","r","a","t","e","d"," ",
    "t","e","m","p","e","r","a","t","u","r","e","[","d","e","g">>
L_Temperature == <<"T","e","m","p","e","r","a","t","u","r","e","[","d","e","g">>
L_Value == <<"v","a","l","u","e","[","d","e","g">>
L_Close == <<"]">>
L_SpecificGravity ==
  <<"S","p","e","c","i","f","i","c"," ","g","r","a","v","i","t","y">>
L_Plato == <<"P","l","a","t","o","[","d","e","g","P","]">>
L_Calibrated == <<"C","a","l","i","b","r","a","t","e","d"," ">>
L_F == <<"F">>
L_C == <<"C">>
L_G == <<"G">>
L_PlatoUnit == <<"P","l","a","t","o">>
L_tilt == <<"t","i","l","t">>
L_spark == <<"s","p","a","r","k">>
L_temp == "temp"
L_gravity == "gravity"

\* ------------------------------------------------------------------------
\* prepare(): derivation of the Brewblox metric of one sensor
\* ------------------------------------------------------------------------
\* sensor_config.get('tilt_params', {}).get('calibrated', False)
Calibrated(sensor_config) ==
  Get(Get(sensor_config, "tilt_params", <<>>), "calibrated", FALSE)

\* the temp branch without the calibrated form
TempMetricUncalibrated(sensor_config, temp_unit, prev) ==
  LET service_type == sensor_config["service_type"]
      service_name == sensor_config["service"]
      sensor       == sensor_config["sensor"]
  IN  IF service_type = L_tilt
      THEN service_name \o L_Slash \o sensor \o L_Slash
             \o L_Temperature \o temp_unit \o L_Close
      ELSE IF service_type = L_spark
           THEN service_name \o L_Slash \o sensor \o L_Slash
                  \o L_Value \o temp_unit \o L_Close
           ELSE prev

\* the temp branch: the new value of temp_metric
TempMetric(sensor_config, temp_unit, prev) ==
  LET service_type == sensor_config["service_type"]
      service_name == sensor_config["service"]
      sensor       == sensor_config["sensor"]
  IN  IF service_type = L_tilt
      THEN IF Calibrated(sensor_config)
           THEN service_name \o L_Slash \o sensor \o L_Slash
                  \o L_CalibratedTemperature \o temp_unit \o L_Close
           ELSE service_name \o L_Slash \o sensor \o L_Slash
                  \o L_Temperature \o temp_unit \o L_Close
      ELSE IF service_type = L_spark
           THEN service_name \o L_Slash \o sensor \o L_Slash
                  \o L_Value \o temp_unit \o L_Close
           ELSE prev

\* the gravity branch: the new value of gravity_metric
GravityMetric(sensor_config, gravity_unit, prev) ==
  LET service_type == sensor_config["service_type"]
      service_name == sensor_config["service"]
      sensor       == sensor_config["sensor"]
      unit_string  == IF gravity_unit = L_G THEN L_SpecificGravity ELSE L_Plato
  IN  IF service_type = L_tilt
      THEN IF Calibrated(sensor_config)
           THEN service_name \o L_Slash \o sensor \o L_Slash
                  \o L_Calibrated \o PyLower(unit_string)
           ELSE service_name \o L_Slash \o sensor \o L_Slash \o unit_string
      ELSE prev

\* ------------------------------------------------------------------------
\* prepare(): compilation of the fermenter configuration
\* ------------------------------------------------------------------------
\* lowest sleep between two cycles: max(900.0, ...)
MinInterval == 900

\* the interval taken as configured, without the floor
EffectiveIntervalRaw(p) == p

\* max(900.0, poll_interval)
EffectiveInterval(p) == IF p > MinInterval THEN p ELSE MinInterval

\* a fermenter loop that also raises on a service type it does not know
FermenterLoadsStrict(fermenter) ==
  /\ "name" \in DOMAIN fermenter
  /\ "sensors" \in DOMAIN fermenter
  /\ \A brewfather_field \in DOMAIN fermenter["sensors"] :
       /\ {"service_type", "service", "sensor"}
            \subseteq DOMAIN fermenter["sensors"][brewfather_field]
       /\ fermenter["sensors"][brewfather_field]["service_type"]
            \in (IF brewfather_field = L_gravity THEN {L_tilt} ELSE {L_tilt, L_spark})

\* the statements of the fermenter loop that raise KeyError
FermenterLoads(fermenter) ==
  /\ "name" \in DOMAIN fermenter
  /\ "sensors" \in DOMAIN fermenter
  /\ \A brewfather_field \in DOMAIN fermenter["sensors"] :
       {"service_type", "service", "sensor"}
         \subseteq DOMAIN fermenter["sensors"][brewfather_field]

\* a mapping that keeps the resolved fields only
FermenterFieldsResolvedOnly(fermenter) ==
  LET temp_unit    == Get(fermenter, "temp_unit", L_F)
      gravity_unit == Get(fermenter, "gravity_unit", L_G)
      fermenter_sensors == fermenter["sensors"]
      temp_metric ==
        IF L_temp \in DOMAIN fermenter_sensors
        THEN TempMetric(fermenter_sensors[L_temp], temp_unit, None)
        ELSE None
      gravity_metric ==
        IF L_gravity \in DOMAIN fermenter_sensors
        THEN GravityMetric(fermenter_sensors[L_gravity], gravity_unit, None)
        ELSE None
      all == [temp |-> temp_metric, gravity |-> gravity_metric]
  IN  [metrics |-> [k \in {x \in {"temp", "gravity"} : all[x] # None} |-> all[k]],
       units   |-> [temp_unit |-> temp_unit, gravity_unit |-> gravity_unit]]

\* the value stored under field_mapping[fermenter_name]
FermenterFields(fermenter) ==
  LET temp_unit    == Get(fermenter, "temp_unit", L_F)
      gravity_unit == Get(fermenter, "gravity_unit", L_G)
      fermenter_sensors == fermenter["sensors"]
      temp_metric ==
        IF L_temp \in DOMAIN fermenter_sensors
        THEN TempMetric(fermenter_sensors[L_temp], temp_unit, None)
        ELSE None
      gravity_metric ==
        IF L_gravity \in DOMAIN fermenter_sensors
        THEN GravityMetric(fermenter_sensors[L_gravity], gravity_unit, None)
        ELSE None
  IN  [metrics |-> [temp |-> temp_metric, gravity |-> gravity_metric],
       units   |-> [temp_unit |-> temp_unit, gravity_unit |-> gravity_unit]]

\* the keys of the insertion-ordered dict
Keys(table) == {table[i].name : i \in DOMAIN table}

\* a dict assignment that keeps the value of an existing key
DictSetKeepFirst(table, name, fields) ==
  IF name \in {table[i].name : i \in DOMAIN table}
  THEN table
  ELSE Append(table, [name |-> name, fields |-> fields])

\* table[name] = fields on an insertion-ordered dict: a new key is appended,
\* an existing key keeps its position and gets the new value
DictSet(table, name, fields) ==
  IF name \in Keys(table)
  THEN [i \in DOMAIN table |->
          IF table[i].name = name
          THEN [name |-> name, fields |-> fields] ELSE table[i]]
  ELSE Append(table, [name |-> name, fields |-> fields])

\* the loop over fermenter_config from record i on; ok is FALSE when a
\* record raised, and table is what self.field_mapping holds at that point
RECURSIVE CompileFrom(_, _, _)
CompileFrom(fermenter_config, i, table) ==
  IF i > Len(fermenter_config)
  THEN [ok |-> TRUE, table |-> table]
  ELSE IF ~FermenterLoads(fermenter_config[i])
       THEN [ok |-> FALSE, table |-> table]
       ELSE CompileFrom(fermenter_config, i + 1,
                        DictSet(table, fermenter_config[i]["name"],
                                FermenterFields(fermenter_config[i])))

\* the try block of prepare(): open, safe_load and the fermenter loop
LoadConfig(file) ==
  IF ~file.readable
  THEN [ok |-> FALSE, table |-> <<>>]
  ELSE CompileFrom(file.content, 1, <<>>)

\* prepare() going on after a failed load
PrepareOutcomeIgnoringLoad(loaded, effective) ==
  IF effective <= 0 THEN "cancelled" ELSE "prepared"

\* how prepare() ends: by raising RepeaterCancelled or by returning
PrepareOutcome(loaded, effective) ==
  IF ~loaded THEN "cancelled"
  ELSE IF effective <= 0 THEN "cancelled"
  ELSE "prepared"

\* ------------------------------------------------------------------------
\* Inputs: the application configuration and the configuration file
\* ------------------------------------------------------------------------
\* values of app['config']['poll_interval']
PollIntervals == {-1, 0, 10, 900, 1000}

SeqsUpTo(S, n) == UNION {[1..k -> S] : k \in 0..n}

N_f1 == <<"f","1">>
N_f2 == <<"f","2">>
S_Red == <<"R","e","d">>
S_Spark1 == <<"S","p","1">>
S_Beer == <<"B","e","e","r">>
L_other == <<"p","l","a","a","t","o">>

SC_TiltCalibrated ==
  [service_type |-> L_tilt, service |-> L_tilt, sensor |-> S_Red,
   tilt_params |-> [calibrated |-> TRUE]]
SC_Spark ==
  [service_type |-> L_spark, service |-> S_Spark1, sensor |-> S_Beer]
SC_NoSensor ==
  [service_type |-> L_tilt, service |-> L_tilt]

\* fermenter records of the polled configurations: a tilt with both fields,
\* a spark with a temperature and an unsupported gravity, a second record
\* named f1 none of whose
\* fields resolves, a record without a sensor id and a record without a name
Fermenters ==
  { [name |-> N_f1, temp_unit |-> L_C, gravity_unit |-> L_PlatoUnit,
     sensors |-> [temp |-> SC_TiltCalibrated, gravity |-> SC_TiltCalibrated]],
    [name |-> N_f2, sensors |-> [temp |-> SC_Spark, gravity |-> SC_Spark]],
    [name |-> N_f1, sensors |-> [gravity |-> SC_Spark]],
    [name |-> N_f2, sensors |-> [temp |-> SC_NoSensor]],
    [sensors |-> [temp |-> SC_Spark]] }

ConfigFiles ==
  {[readable |-> FALSE, content |-> <<>>]}
    \cup {[readable |-> TRUE, content |-> c] : c \in SeqsUpTo(Fermenters, MaxDevices)}

\* ------------------------------------------------------------------------
\* State
\* ------------------------------------------------------------------------
VARIABLES
  poll_interval,      \* app['config']['poll_interval']
  config_file,        \* the file named by app['config']['fermenter_config_file']
  phase,              \* "start", "prepared" or "cancelled": how prepare() ended
  interval,           \* self.interval
  field_mapping,      \* self.field_mapping
  pc,                 \* position of run(): "idle" when it is not running
  dev,                \* position of the device loop in field_mapping
  request,            \* the last request passed to session.post
  response,           \* what the metrics request of this device came to
  brewfather_params,  \* the payload built for this device
  bf_response,        \* what the Brewfather request of this device came to
  logged,             \* the LOGGER calls made for this device
  calls,              \* the session.post calls of this run(), in order
  in_flight,          \* the session.post calls that have not ended yet
  fetch_failed,       \* the devices whose metrics request failed in this run()
  cycle,              \* number of run() calls so far
  sleeps              \* the asyncio.sleep calls completed so far

vars == <<poll_interval, config_file, phase, interval, field_mapping, pc, dev,
          request, response, brewfather_params, bf_response, logged, calls,
          in_flight, fetch_failed, cycle, sleeps>>

inputs == <<poll_interval, config_file>>
prepared == <<phase, interval, field_mapping>>
locals == <<request, response, brewfather_params, bf_response, logged>>

NoRequest == [url |-> "none", json |-> <<>>]
NoResponse == [status |-> "none", body |-> <<>>]
NoBfResponse == [status |-> "none", result |-> ""]

InitState ==
  /\ phase = "start"
  /\ interval = 0
  /\ field_mapping = <<>>
  /\ pc = "idle"
  /\ dev = 0
  /\ request = NoRequest
  /\ response = NoResponse
  /\ brewfather_params = <<>>
  /\ bf_response = NoBfResponse
  /\ logged = <<>>
  /\ calls = <<>>
  /\ in_flight = {}
  /\ fetch_failed = {}
  /\ cycle = 0
  /\ sleeps = <<>>

Init ==
  /\ poll_interval \in PollIntervals
  /\ config_file \in ConfigFiles
  /\ InitState

\* ------------------------------------------------------------------------
\* prepare()
\* ------------------------------------------------------------------------
Prepare ==
  /\ phase = "start"
  /\ LET loaded == LoadConfig(config_file)
         effective == EffectiveInterval(poll_interval)
     IN  /\ interval' = effective
         /\ field_mapping' = loaded.table
         /\ phase' = PrepareOutcome(loaded.ok, effective)
  /\ UNCHANGED <<inputs, pc, dev, locals, calls, in_flight, fetch_failed, cycle,
                 sleeps>>

\* ------------------------------------------------------------------------
\* run(): one poll cycle and its sleep
\* ------------------------------------------------------------------------
MetricsUrl == "metrics_url"
BrewfatherUrl == "brewfather_url"

\* every value of the mapping sent as 'fields', None included
BrewbloxFieldsWithNone(metrics) == {metrics[k] : k \in DOMAIN metrics}

\* the set comprehension sent as 'fields'
BrewbloxFields(metrics) == {metrics[k] : k \in DOMAIN metrics} \ {None}

\* d[k] = v on a dict
DictPut(d, k, v) == [x \in DOMAIN d \cup {k} |-> IF x = k THEN v ELSE d[x]]

\* the loop over the pairs with the two payload keys exchanged
RECURSIVE ReshapeSwapped(_, _, _, _)
ReshapeSwapped(metrics, body, i, bfdata) ==
  IF i > Len(body) THEN bfdata
  ELSE LET brewblox_field == body[i].metric
       IN  IF metrics["temp"] = brewblox_field
           THEN ReshapeSwapped(metrics, body, i + 1,
                               DictPut(bfdata, "gravity", body[i].value))
           ELSE IF metrics["gravity"] = brewblox_field
                THEN ReshapeSwapped(metrics, body, i + 1,
                                    DictPut(bfdata, "temp", body[i].value))
                ELSE ReshapeSwapped(metrics, body, i + 1, bfdata)

\* the loop over the pairs of the metrics response, from pair i on
RECURSIVE Reshape(_, _, _, _)
Reshape(metrics, body, i, bfdata) ==
  IF i > Len(body) THEN bfdata
  ELSE LET brewblox_field == body[i].metric
       IN  IF metrics["temp"] = brewblox_field
           THEN Reshape(metrics, body, i + 1, DictPut(bfdata, "temp", body[i].value))
           ELSE IF metrics["gravity"] = brewblox_field
                THEN Reshape(metrics, body, i + 1,
                             DictPut(bfdata, "gravity", body[i].value))
                ELSE Reshape(metrics, body, i + 1, bfdata)

\* bfdata once the name and the units are added
AddLabels(bfdata, fermenter_name, units) ==
  DictPut(DictPut(DictPut(bfdata, "name", fermenter_name),
                  "temp_unit", units["temp_unit"]),
          "gravity_unit", units["gravity_unit"])

\* the payload sent as built, empty fields included
KeepEmpty(bfdata) == bfdata

\* the dict comprehension that clears out the empty fields
ClearEmpty(bfdata) ==
  [k \in {x \in DOMAIN bfdata : bfdata[x] # None} |-> bfdata[k]]

\* what a metrics request can come to.  The POST raises (an error status
\* under raise_for_status, or no connection), response.json() raises
\* ContentTypeError (a ClientResponseError) or a decoding error, or the body
\* is a list of {metric, value} pairs.
V_One == <<"1">>
M_Unrequested == <<"x">>

MetricsReplies(fields) ==
  {[status |-> s, body |-> <<>>] :
     s \in {"response_error", "connection_error",
            "content_type_error", "json_decode_error"}}
    \cup {[status |-> "ok", body |-> b] :
            b \in SeqsUpTo([metric : fields \cup {M_Unrequested},
                            value : {V_One, None}], MaxResp)}

\* the exceptions of the metrics request that no except clause catches:
\* session.post is outside the try, and only ClientResponseError is caught
\* around response.json()
FetchEscapes(status) ==
  status \in {"response_error", "connection_error", "json_decode_error"}

\* what a Brewfather request can come to.  The POST raises
\* ClientResponseError or a connection error, the body is no JSON, the body
\* has no 'result', or the body has a result token.
ResultTokens == {"success", "ignored", "OK", "error"}

BrewfatherReplies ==
  {[status |-> s, result |-> ""] :
     s \in {"response_error", "connection_error", "not_json", "no_result"}}
    \cup {[status |-> "ok", result |-> r] : r \in ResultTokens}

\* the exceptions of the Brewfather request that except ClientResponseError
\* does not catch
SubmitEscapes(status) ==
  status \in {"connection_error", "not_json", "no_result"}

LogEntry(level, msg, body) == [level |-> level, msg |-> msg, body |-> body]

\* the result branches with 'OK' handled like 'ignored'
ClassifyResultLegacyOK(result) ==
  IF result = "success"
  THEN LogEntry("info", "Data submitted successfully", "")
  ELSE IF result \in {"ignored", "OK"}
       THEN LogEntry("warning", "Data submission ignored", "")
       ELSE LogEntry("warning", "body", result)

\* the LOGGER call of the result branches
ClassifyResult(result) ==
  IF result = "success"
  THEN LogEntry("info", "Data submitted successfully", "")
  ELSE IF result = "ignored"
       THEN LogEntry("warning", "Data submission ignored", "")
       ELSE LogEntry("warning", "body", result)

\* the base class calls run(): after prepare(), after run() returned, and
\* after run() raised
CallRun ==
  /\ phase = "prepared"
  /\ pc \in {"idle", "raised"}
  /\ cycle < MaxCycles
  /\ cycle' = cycle + 1
  /\ calls' = <<>>
  /\ in_flight' = {}
  /\ fetch_failed' = {}
  /\ request' = NoRequest
  /\ response' = NoResponse
  /\ brewfather_params' = <<>>
  /\ bf_response' = NoBfResponse
  /\ logged' = <<>>
  /\ IF Len(field_mapping) > 0
     THEN dev' = 1 /\ pc' = "fetch"
     ELSE dev' = 0 /\ pc' = "sleep"
  /\ UNCHANGED <<inputs, prepared, sleeps>>

\* session.post(self.metrics_url, json=brewblox_params) is called
PostMetrics ==
  /\ pc = "fetch"
  /\ LET fermenter_name == field_mapping[dev].name
         metrics == field_mapping[dev].fields["metrics"]
         brewblox_params == [fields |-> BrewbloxFields(metrics)]
     IN  /\ request' = [url |-> MetricsUrl, json |-> brewblox_params]
         /\ calls' = Append(calls, [url |-> MetricsUrl, name |-> fermenter_name])
         /\ in_flight' = in_flight \cup {[url |-> MetricsUrl, name |-> fermenter_name]}
  /\ response' = NoResponse
  /\ brewfather_params' = <<>>
  /\ bf_response' = NoBfResponse
  /\ logged' = <<>>
  /\ pc' = "fetching"
  /\ UNCHANGED <<inputs, prepared, dev, fetch_failed, cycle, sleeps>>

\* the metrics request ends; on a list of pairs, or on a caught
\* ClientResponseError, the payload is built
MetricsReply ==
  /\ pc = "fetching"
  /\ LET fermenter_name == field_mapping[dev].name
         fields == field_mapping[dev].fields
     IN  \E reply \in MetricsReplies(request.json.fields) :
           /\ response' = reply
           /\ in_flight' = in_flight \ {[url |-> MetricsUrl, name |-> fermenter_name]}
           /\ fetch_failed' = IF reply.status = "ok" THEN fetch_failed
                              ELSE fetch_failed \cup {fermenter_name}
           /\ IF FetchEscapes(reply.status)
              THEN /\ pc' = "raised"
                   /\ UNCHANGED <<brewfather_params, logged>>
              ELSE /\ pc' = "submit"
                   /\ logged' =
                        IF reply.status = "ok" THEN logged
                        ELSE Append(logged,
                               LogEntry("error", "Request to Brewblox API failed", ""))
                   /\ brewfather_params' =
                        ClearEmpty(AddLabels(
                          Reshape(fields["metrics"], reply.body, 1, <<>>),
                          fermenter_name, fields["units"]))
  /\ UNCHANGED <<inputs, prepared, dev, request, bf_response, calls, cycle, sleeps>>

\* the Brewfather request started without being awaited: the loop goes on
\* with the next device while the request is in flight
PostBrewfatherNoAwait ==
  /\ pc = "submit"
  /\ request' = [url |-> BrewfatherUrl, json |-> brewfather_params]
  /\ calls' = Append(calls, [url |-> BrewfatherUrl, name |-> field_mapping[dev].name])
  /\ in_flight' =
       in_flight \cup {[url |-> BrewfatherUrl, name |-> field_mapping[dev].name]}
  /\ IF dev < Len(field_mapping)
     THEN dev' = dev + 1 /\ pc' = "fetch"
     ELSE dev' = dev /\ pc' = "sleep"
  /\ UNCHANGED <<inputs, prepared, response, brewfather_params, bf_response,
                 logged, fetch_failed, cycle, sleeps>>

\* session.post(self.brewfather_url, json=brewfather_params) is called
PostBrewfather ==
  /\ pc = "submit"
  /\ request' = [url |-> BrewfatherUrl, json |-> brewfather_params]
  /\ calls' = Append(calls, [url |-> BrewfatherUrl, name |-> field_mapping[dev].name])
  /\ in_flight' =
       in_flight \cup {[url |-> BrewfatherUrl, name |-> field_mapping[dev].name]}
  /\ pc' = "submitting"
  /\ UNCHANGED <<inputs, prepared, dev, response, brewfather_params, bf_response,
                 logged, fetch_failed, cycle, sleeps>>

\* the Brewfather request ends, and a submission that failed with
\* ClientResponseError is made again
BrewfatherReplyRetry ==
  /\ pc = "submitting"
  /\ \E reply \in BrewfatherReplies :
       /\ bf_response' = reply
       /\ IF SubmitEscapes(reply.status)
          THEN /\ pc' = "raised"
               /\ UNCHANGED <<dev, logged>>
          ELSE /\ logged' =
                    IF reply.status = "ok"
                    THEN Append(logged, ClassifyResult(reply.result))
                    ELSE Append(logged,
                           LogEntry("error", "Request to Brewfather API failed", ""))
               /\ IF reply.status # "ok"
                  THEN dev' = dev /\ pc' = "submit"
                  ELSE IF dev < Len(field_mapping)
                       THEN dev' = dev + 1 /\ pc' = "fetch"
                       ELSE dev' = dev /\ pc' = "sleep"
  /\ response' = NoResponse
  /\ in_flight' =
       in_flight \ {[url |-> BrewfatherUrl, name |-> field_mapping[dev].name]}
  /\ UNCHANGED <<inputs, prepared, request, brewfather_params, calls,
                 fetch_failed, cycle, sleeps>>

\* the Brewfather request ends; the loop goes on with the next device, or
\* run() reaches its sleep
BrewfatherReply ==
  /\ pc = "submitting"
  /\ \E reply \in BrewfatherReplies :
       /\ bf_response' = reply
       /\ IF SubmitEscapes(reply.status)
          THEN /\ pc' = "raised"
               /\ UNCHANGED <<dev, logged>>
          ELSE /\ logged' =
                    IF reply.status = "ok"
                    THEN Append(logged, ClassifyResult(reply.result))
                    ELSE Append(logged,
                           LogEntry("error", "Request to Brewfather API failed", ""))
               /\ IF dev < Len(field_mapping)
                  THEN dev' = dev + 1 /\ pc' = "fetch"
                  ELSE dev' = dev /\ pc' = "sleep"
  /\ response' = NoResponse
  /\ in_flight' =
       in_flight \ {[url |-> BrewfatherUrl, name |-> field_mapping[dev].name]}
  /\ UNCHANGED <<inputs, prepared, request, brewfather_params, calls,
                 fetch_failed, cycle, sleeps>>

\* a sleep that doubles self.interval for the next cycle
SleepBackoff ==
  /\ pc = "sleep"
  /\ sleeps' = Append(sleeps, interval)
  /\ interval' = 2 * interval
  /\ pc' = "idle"
  /\ UNCHANGED <<inputs, phase, field_mapping, dev, locals, calls, in_flight,
                 fetch_failed, cycle>>

\* the sleep, after which run() ends the repeater
SleepThenStop ==
  /\ pc = "sleep"
  /\ sleeps' = Append(sleeps, interval)
  /\ pc' = "stopped"
  /\ UNCHANGED <<inputs, prepared, dev, locals, calls, in_flight, fetch_failed,
                 cycle>>

\* await asyncio.sleep(self.interval), and run() returns
Sleep ==
  /\ pc = "sleep"
  /\ sleeps' = Append(sleeps, interval)
  /\ pc' = "idle"
  /\ UNCHANGED <<inputs, prepared, dev, locals, calls, in_flight, fetch_failed,
                 cycle>>

Next ==
  \/ Prepare
  \/ CallRun
  \/ PostMetrics
  \/ MetricsReply
  \/ PostBrewfather
  \/ BrewfatherReply
  \/ Sleep

Spec == Init /\ [][Next]_vars

\* the event loop keeps running the task: a request ends, a sleep ends, and
\* the base class calls run() again
\* the configurations with which prepare() succeeds and polling goes on
FairConfigFiles ==
  {[readable |-> TRUE, content |-> c] :
     c \in SeqsUpTo({f \in Fermenters : FermenterLoads(f)}, MaxDevices)}

InitFair ==
  /\ poll_interval \in {10, 1000}
  /\ config_file \in FairConfigFiles
  /\ InitState

FairSpec == InitFair /\ [][Next]_vars /\ WF_vars(Next)

\* ------------------------------------------------------------------------
\* The compilation alone, over a wide range of fermenter records
\* ------------------------------------------------------------------------
EmptyDict == [x \in {} |-> x]

\* the tilt_params entry of a sensor: none, an empty one, or a flag
TiltParamsChoices ==
  {EmptyDict, [tilt_params |-> EmptyDict]}
    \cup {[tilt_params |-> [calibrated |-> b]] : b \in BOOLEAN}

\* sensor configurations over every service type, two service names and two
\* sensor ids, and the three that lack a required key
WideSensorConfigs ==
  {[service_type |-> t, service |-> s, sensor |-> n] @@ p :
     t \in {L_tilt, L_spark, L_other}, s \in {L_tilt, S_Spark1},
     n \in {S_Red, S_Beer}, p \in TiltParamsChoices}
    \cup {[service |-> L_tilt, sensor |-> S_Red],
          [service_type |-> L_tilt, sensor |-> S_Red],
          [service_type |-> L_tilt, service |-> L_tilt]}

NarrowSensorConfigs ==
  {[service_type |-> t, service |-> L_tilt, sensor |-> S_Red] @@ p :
     t \in {L_tilt, L_spark, L_other},
     p \in {EmptyDict, [tilt_params |-> [calibrated |-> TRUE]]}}
    \cup {[service_type |-> L_tilt, service |-> L_tilt]}

WideSensors ==
  {[temp |-> sc] : sc \in WideSensorConfigs}
    \cup {[gravity |-> sc] : sc \in WideSensorConfigs}
    \cup {[aux_temp |-> sc] : sc \in WideSensorConfigs}
    \cup {[temp |-> a, gravity |-> b] :
            a \in NarrowSensorConfigs, b \in NarrowSensorConfigs}
    \cup {EmptyDict}

UnitChoices ==
  {tu @@ gu :
     tu \in {EmptyDict, [temp_unit |-> L_C], [temp_unit |-> L_F]},
     gu \in {EmptyDict, [gravity_unit |-> L_G], [gravity_unit |-> L_PlatoUnit]}}

WideFermenters ==
  {[name |-> N_f1, sensors |-> ss] @@ u : ss \in WideSensors, u \in UnitChoices}
    \cup {[name |-> N_f1], [sensors |-> EmptyDict]}

WideConfigFiles ==
  ConfigFiles
    \cup {[readable |-> TRUE, content |-> <<f>>] : f \in WideFermenters}

InitCompile ==
  /\ poll_interval \in PollIntervals
  /\ config_file \in WideConfigFiles
  /\ InitState

NextCompile == Prepare

SpecCompile == InitCompile /\ [][NextCompile]_vars

\* ------------------------------------------------------------------------
\* Properties
\* ------------------------------------------------------------------------
\* run() was called and is over: it sleeps, has returned, or has raised
RunOver == cycle > 0 /\ pc \in {"sleep", "idle", "raised"}

CallsTo(url, name) ==
  {k \in DOMAIN calls : calls[k].url = url /\ calls[k].name = name}

IsSubmission(call) == call.url = BrewfatherUrl

\* a record that has every key the fermenter loop reads
HasRequiredKeys(f) ==
  /\ {"name", "sensors"} \subseteq DOMAIN f
  /\ \A fld \in DOMAIN f.sensors :
       \A k \in {"service_type", "service", "sensor"} : k \in DOMAIN f.sensors[fld]

ConfigLoads ==
  /\ config_file.readable
  /\ \A i \in DOMAIN config_file.content : HasRequiredKeys(config_file.content[i])

\* the last record of the file with the given name
LastNamed(name) ==
  LET content == config_file.content
      last == CHOOSE i \in DOMAIN content :
                /\ content[i].name = name
                /\ \A j \in DOMAIN content : j > i => content[j].name # name
  IN  content[last]

\* C1: when the metrics fetch of a device fails, every device after it in
\* the table is still fetched and submitted in that run(); with two devices
\* of which only the first fetch fails, the run makes exactly one
\* submission, for the second device.
C1_FetchFailureIsolated ==
  RunOver =>
    /\ \A i, j \in DOMAIN field_mapping :
         (i < j /\ field_mapping[i].name \in fetch_failed)
           => /\ CallsTo(MetricsUrl, field_mapping[j].name) # {}
              /\ CallsTo(BrewfatherUrl, field_mapping[j].name) # {}
    /\ (Len(field_mapping) = 2 /\ fetch_failed = {field_mapping[1].name})
         => SelectSeq(calls, IsSubmission)
              = <<[url |-> BrewfatherUrl, name |-> field_mapping[2].name]>>

\* C2: no submission call is made for a device whose metrics fetch failed
\* in this run().
C2_NoSubmissionAfterFailedFetch ==
  \A k \in DOMAIN calls :
    calls[k].url = BrewfatherUrl => calls[k].name \notin fetch_failed

\* C3: no failure of a submission (the POST raises, the body is no JSON,
\* the body has no result) propagates out of run().
C3_SubmitFailureIsolated ==
  ~(pc = "raised" /\ request.url = BrewfatherUrl)

\* C4: with a poll interval of zero or less, prepare() ends cancelled,
\* run() is never called and no request is ever made.
C4_NonPositiveIntervalDisables ==
  (poll_interval <= 0 /\ phase # "start")
    => /\ phase = "cancelled"
       /\ cycle = 0
       /\ calls = <<>>
       /\ request = NoRequest

\* C5: for a positive poll interval p the effective interval, and every
\* sleep, is 900 when p is below 900 and p otherwise; no cycle runs with an
\* effective interval below 900.
C5_EffectiveIntervalFloor ==
  /\ (phase = "prepared" /\ poll_interval > 0)
       => /\ poll_interval < 900 => interval = 900
          /\ poll_interval >= 900 => interval = poll_interval
          /\ \A i \in DOMAIN sleeps :
               sleeps[i] = IF poll_interval < 900 THEN 900 ELSE poll_interval
  /\ cycle > 0 => interval >= 900

C5_Witness ==
  /\ poll_interval = 10
  /\ sleeps # <<>>
  /\ sleeps[1] = 900

ValuesFor(metric) ==
  {response.body[i].value :
     i \in {x \in DOMAIN response.body : response.body[x].metric = metric}}

\* C7: no payload passed to a submission call has a key whose value is
\* null; temp (gravity) is no key of the payload when it is unmapped for
\* the device, when the response has no pair for its metric, or when the
\* pairs for its metric hold null.
C7_NoNullInPayload ==
  /\ request.url = BrewfatherUrl
       => \A k \in DOMAIN request.json : request.json[k] # None
  /\ pc = "submitting"
       => \A fld \in {"temp", "gravity"} :
            LET metric == field_mapping[dev].fields.metrics[fld]
            IN  (metric = None \/ ValuesFor(metric) \subseteq {None})
                  => fld \notin DOMAIN request.json

C7_Witness ==
  /\ pc = "submitting"
  /\ field_mapping[dev].fields.metrics["temp"] # None
  /\ ValuesFor(field_mapping[dev].fields.metrics["temp"]) = {None}
  /\ "temp" \notin DOMAIN request.json
  /\ "gravity" \in DOMAIN request.json

\* C8: when the configuration file cannot be read, or a record lacks a
\* required key, prepare() ends cancelled, run() is never called and no
\* request is ever made, whatever was compiled before the failing record.
C8_FailedLoadNeverPolls ==
  (~ConfigLoads /\ phase # "start")
    => /\ phase = "cancelled"
       /\ cycle = 0
       /\ pc = "idle"
       /\ calls = <<>>
       /\ request = NoRequest
       /\ sleeps = <<>>

C8_Witness ==
  /\ phase = "cancelled"
  /\ config_file.readable
  /\ Len(field_mapping) = 1
  /\ Len(config_file.content) = 2
  /\ ~HasRequiredKeys(config_file.content[2])

DuplicateNames ==
  \E i, j \in DOMAIN config_file.content :
    i < j /\ config_file.content[i].name = config_file.content[j].name

X_SpecificGravity ==
  <<"S","p","e","c","i","f","i","c"," ","g","r","a","v","i","t","y">>
X_Plato == <<"P","l","a","t","o","[","d","e","g","P","]">>
X_CalibratedSpecificGravity ==
  <<"C","a","l","i","b","r","a","t","e","d"," ",
    "s","p","e","c","i","f","i","c"," ","g","r","a","v","i","t","y">>
X_CalibratedPlato ==
  <<"C","a","l","i","b","r","a","t","e","d"," ",
    "p","l","a","t","o","[","d","e","g","P","]">>

DeclaredCalibrated(sc) ==
  /\ "tilt_params" \in DOMAIN sc
  /\ "calibrated" \in DOMAIN sc.tilt_params
  /\ sc.tilt_params.calibrated

\* C10: the gravity metric of a tilt sensor is '{service}/{sensor}/'
\* followed by 'Specific gravity', 'Plato[degP]', 'Calibrated specific
\* gravity' or 'Calibrated plato[degP]', by gravity unit and calibration.
C10_GravityTiltIdentifier ==
  (ConfigLoads /\ phase = "prepared") =>
    \A i \in DOMAIN field_mapping :
      LET f == LastNamed(field_mapping[i].name)
      IN  ( /\ "gravity" \in DOMAIN f.sensors
            /\ f.sensors.gravity.service_type = L_tilt
            /\ "gravity_unit" \in DOMAIN f
            /\ f.gravity_unit \in {L_G, L_PlatoUnit} )
          => LET sc == f.sensors.gravity
                 suffix ==
                   IF DeclaredCalibrated(sc)
                   THEN IF f.gravity_unit = L_G
                        THEN X_CalibratedSpecificGravity ELSE X_CalibratedPlato
                   ELSE IF f.gravity_unit = L_G
                        THEN X_SpecificGravity ELSE X_Plato
             IN  field_mapping[i].fields.metrics["gravity"]
                   = sc.service \o <<"/">> \o sc.sensor \o <<"/">> \o suffix

X_CalibratedTemperature ==
  <<"C","a","l","i","b","r","a","t","e","d"," ",
    "t","e","m","p","e","r","a","t","u","r","e","[","d","e","g">>
X_Temperature == <<"T","e","m","p","e","r","a","t","u","r","e","[","d","e","g">>
X_Value == <<"v","a","l","u","e","[","d","e","g">>

\* C11: the temp metric is '{service}/{sensor}/Calibrated
\* temperature[deg{u}]' for a calibrated tilt, '{service}/{sensor}/
\* Temperature[deg{u}]' for a tilt that is not calibrated or declares no
\* flag, and '{service}/{sensor}/value[deg{u}]' for a spark whatever its
\* flag, for u in {C, F}.
C11_TempIdentifier ==
  (ConfigLoads /\ phase = "prepared") =>
    \A i \in DOMAIN field_mapping :
      LET f == LastNamed(field_mapping[i].name)
      IN  ( /\ "temp" \in DOMAIN f.sensors
            /\ f.sensors.temp.service_type \in {L_tilt, L_spark}
            /\ "temp_unit" \in DOMAIN f
            /\ f.temp_unit \in {L_C, L_F} )
          => LET sc == f.sensors.temp
                 label ==
                   IF sc.service_type = L_spark THEN X_Value
                   ELSE IF DeclaredCalibrated(sc) THEN X_CalibratedTemperature
                   ELSE X_Temperature
             IN  field_mapping[i].fields.metrics["temp"]
                   = sc.service \o <<"/">> \o sc.sensor \o <<"/">>
                       \o label \o f.temp_unit \o <<"]">>

C11_Witness ==
  /\ phase = "prepared"
  /\ Len(config_file.content) = 1
  /\ HasRequiredKeys(config_file.content[1])
  /\ "temp" \in DOMAIN config_file.content[1].sensors
  /\ config_file.content[1].sensors.temp.service_type = L_tilt
  /\ DeclaredCalibrated(config_file.content[1].sensors.temp)
  /\ field_mapping[1].fields.metrics["temp"]
       = S_Spark1 \o <<"/">> \o S_Beer \o <<"/">> \o X_CalibratedTemperature
           \o <<"C","]">>

\* the service types for which a field resolves
Recognized(fld) == IF fld = "gravity" THEN {L_tilt} ELSE {L_tilt, L_spark}

\* the field is declared for the record with a service type that resolves
Resolves(f, fld) ==
  /\ fld \in DOMAIN f.sensors
  /\ f.sensors[fld].service_type \in Recognized(fld)

\* C12 (as stated): a field is a key of a device's mapping only if it
\* resolved to a metric; no key is stored with a null value.
C12_NoNullKeyInMapping ==
  (ConfigLoads /\ phase = "prepared") =>
    \A i \in DOMAIN field_mapping :
      \A fld \in DOMAIN field_mapping[i].fields.metrics :
        /\ field_mapping[i].fields.metrics[fld] # None
        /\ Resolves(LastNamed(field_mapping[i].name), fld)

\* C12 (amended): every device's mapping has both keys temp and gravity; a
\* field that resolved is stored with its metric identifier, and a field
\* that is not declared, or is declared with an unrecognized service type,
\* is stored under its key with the value None.
C12_UnresolvedStoredAsNone ==
  (ConfigLoads /\ phase = "prepared") =>
    \A i \in DOMAIN field_mapping :
      LET f == LastNamed(field_mapping[i].name)
          metrics == field_mapping[i].fields.metrics
      IN  /\ DOMAIN metrics = {"temp", "gravity"}
          /\ \A fld \in {"temp", "gravity"} :
               (metrics[fld] = None) <=> ~Resolves(f, fld)

C12_Witness ==
  /\ phase = "prepared"
  /\ Len(field_mapping) = 1
  /\ "gravity" \notin DOMAIN config_file.content[1].sensors
  /\ field_mapping[1].fields.metrics["gravity"] = None
  /\ field_mapping[1].fields.metrics["temp"] # None

\* C13: a sensor declared with a service type that is not recognized for
\* its field never makes the compilation fail: the field is stored as
\* absent, the device is in the table with its units and its other resolved
\* fields, and a run() that goes through the table polls it.
C13_UnknownServiceTypeTolerated ==
  (ConfigLoads /\ phase # "start") =>
    /\ poll_interval > 0 => phase = "prepared"
    /\ {field_mapping[i].name : i \in DOMAIN field_mapping}
         = {config_file.content[i].name : i \in DOMAIN config_file.content}
    /\ \A i \in DOMAIN field_mapping :
         LET f == LastNamed(field_mapping[i].name)
             fields == field_mapping[i].fields
         IN  /\ \A fld \in {"temp", "gravity"} :
                  /\ (fld \in DOMAIN f.sensors /\ ~Resolves(f, fld))
                       => fields.metrics[fld] = None
                  /\ Resolves(f, fld) => fields.metrics[fld] # None
             /\ "temp_unit" \in DOMAIN f => fields.units.temp_unit = f.temp_unit
             /\ "gravity_unit" \in DOMAIN f
                  => fields.units.gravity_unit = f.gravity_unit
             /\ pc = "sleep" => CallsTo(MetricsUrl, field_mapping[i].name) # {}

C13_Witness ==
  /\ ConfigLoads
  /\ pc = "sleep"
  /\ \E i \in DOMAIN field_mapping :
       LET f == LastNamed(field_mapping[i].name)
       IN  /\ "gravity" \in DOMAIN f.sensors
           /\ f.sensors.gravity.service_type = L_spark
           /\ field_mapping[i].fields.metrics["gravity"] = None
           /\ field_mapping[i].fields.metrics["temp"] # None
           /\ CallsTo(MetricsUrl, field_mapping[i].name) # {}
           /\ CallsTo(BrewfatherUrl, field_mapping[i].name) # {}

\* C14: between the end of a run() and the start of the next there is one
\* sleep of the effective interval, also when a fetch or a submission
\* failed: every run() after the first follows one completed sleep per
\* earlier run(), each of the effective interval.
C14_SleepBetweenCycles ==
  /\ cycle <= Len(sleeps) + 1
  /\ \A i \in DOMAIN sleeps : sleeps[i] = interval

\* the call expected at position k of a run(): fetch then submission, device
\* after device in table order
ExpectedCall(k) ==
  [url  |-> IF k % 2 = 1 THEN MetricsUrl ELSE BrewfatherUrl,
   name |-> field_mapping[(k + 1) \div 2].name]

\* C16: at most one request is in flight; the calls of a run() are, device
\* after device in table order, the fetch and then the submission of the
\* device, and a call is made only when every earlier call has ended.
C16_OneCallInFlight ==
  /\ Cardinality(in_flight) <= 1
  /\ Len(calls) <= 2 * Len(field_mapping)
  /\ \A k \in DOMAIN calls : calls[k] = ExpectedCall(k)
  /\ in_flight # {} => in_flight = {calls[Len(calls)]}

C16_Witness ==
  /\ pc = "fetching"
  /\ dev = 2
  /\ Len(calls) = 3
  /\ in_flight = {[url |-> MetricsUrl, name |-> field_mapping[2].name]}

\* C15: once prepare() has succeeded the loop never stops by itself: after
\* every run(), whatever became of its devices, run() is called again: from
\* any state after prepare(), every run() up to the last one of the model
\* comes to start.
C15_LoopNeverStops ==
  (phase = "prepared") ~> (cycle = MaxCycles)

C15_Witness ==
  /\ cycle = 2
  /\ pc = "fetching"
  /\ Len(sleeps) = 1

\* C17: in one run() every device gets at most one fetch call and at most
\* one submission call.
C17_NoRetryWithinCycle ==
  \A i \in DOMAIN field_mapping :
    /\ Cardinality(CallsTo(MetricsUrl, field_mapping[i].name)) <= 1
    /\ Cardinality(CallsTo(BrewfatherUrl, field_mapping[i].name)) <= 1

C17_Witness ==
  /\ pc = "sleep"
  /\ Len(field_mapping) = 2
  /\ Len(calls) = 4
  /\ bf_response.status = "response_error"
  /\ fetch_failed # {}

\* the positions of the response pairs for a metric
PairsFor(metric) ==
  {i \in DOMAIN response.body : response.body[i].metric = metric}

\* C18: the temp (gravity) value of a submitted payload is the value of the
\* returned pair whose metric is the device's temp (gravity) identifier, the
\* last one if several are returned; a pair whose metric is no identifier
\* of the device adds no key; the payload has the device's name and units,
\* and no key beyond name, temp_unit, gravity_unit, temp and gravity.
C18_PayloadFromResponse ==
  pc = "submitting" =>
    LET payload == request.json
        fields == field_mapping[dev].fields
    IN  /\ {"name", "temp_unit", "gravity_unit"} \subseteq DOMAIN payload
        /\ DOMAIN payload
             \subseteq {"name", "temp_unit", "gravity_unit", "temp", "gravity"}
        /\ payload["name"] = field_mapping[dev].name
        /\ payload["temp_unit"] = fields.units.temp_unit
        /\ payload["gravity_unit"] = fields.units.gravity_unit
        /\ \A fld \in {"temp", "gravity"} :
             LET metric == fields.metrics[fld]
             IN  /\ fld \in DOMAIN payload
                      => /\ metric # None
                         /\ \E i \in PairsFor(metric) :
                              /\ response.body[i].value = payload[fld]
                              /\ \A j \in PairsFor(metric) : j <= i
                 /\ \A i \in PairsFor(metric) :
                      (PairsFor(metric) = {i} /\ response.body[i].value # None)
                        => /\ fld \in DOMAIN payload
                           /\ payload[fld] = response.body[i].value

C18_Witness ==
  /\ pc = "submitting"
  /\ Len(response.body) = 2
  /\ response.body[1].metric = M_Unrequested
  /\ response.body[1].value = V_One
  /\ response.body[2].metric = field_mapping[dev].fields.metrics["gravity"]
  /\ DOMAIN request.json = {"name", "temp_unit", "gravity_unit", "gravity"}
  /\ request.json["gravity"] = V_One

\* C19: a poll cycle leaves the mapping table and the effective interval as
\* prepare() set them, and every request is made to one of the two URLs,
\* for the device the loop is at, with the name and the units of the table.
C19_CycleLeavesConfigUnchanged ==
  /\ [][phase = "prepared"
          => /\ field_mapping' = field_mapping
             /\ interval' = interval
             /\ phase' = phase]_vars
  /\ [](request.url \in {"none", MetricsUrl, BrewfatherUrl})
  /\ [](pc \in {"fetching", "submitting"}
          => calls[Len(calls)].name = field_mapping[dev].name)
  /\ [](pc = "submitting"
          => /\ request.json["name"] = field_mapping[dev].name
             /\ request.json["temp_unit"]
                  = field_mapping[dev].fields.units.temp_unit
             /\ request.json["gravity_unit"]
                  = field_mapping[dev].fields.units.gravity_unit)

C19_Witness ==
  /\ cycle = 2
  /\ pc = "submitting"
  /\ dev = 2
  /\ Len(sleeps) = 1
  /\ field_mapping = LoadConfig(config_file).table

\* C20: the field list of a fetch request is the set of the identifiers of
\* the device's mapping that are not None: it holds no None, it holds every
\* resolved identifier and nothing else, and it is empty for a device none
\* of whose fields resolved.
C20_FetchFields ==
  pc = "fetching" =>
    LET metrics == field_mapping[dev].fields.metrics
        sent == request.json.fields
    IN  /\ request.url = MetricsUrl
        /\ None \notin sent
        /\ \A fld \in {"temp", "gravity"} :
             metrics[fld] # None => metrics[fld] \in sent
        /\ \A m \in sent : \E fld \in {"temp", "gravity"} : metrics[fld] = m
        /\ Cardinality(sent)
             = Cardinality({fld \in {"temp", "gravity"} : metrics[fld] # None})
        /\ (metrics["temp"] = None /\ metrics["gravity"] = None) => sent = {}

C20_Witness ==
  /\ pc = "fetching"
  /\ field_mapping[dev].fields.metrics["temp"] # None
  /\ field_mapping[dev].fields.metrics["gravity"] = None
  /\ request.json.fields = {field_mapping[dev].fields.metrics["temp"]}

====
